---- MODULE Spec2Model ----
(***************************************************************************)
(* Model of the node grouping pass of ingest_bulk.py: alphanum_key,        *)
(* get_all_nodes, match_names (check_geo, compare_node_names,              *)
(* name_list_clean and the diagonal sweep).                                *)
(*                                                                         *)
(* A Python str is a sequence of one-character strings.  A node is a       *)
(* record; a node of the list given to match_names is identified by its    *)
(* position in that list (1-based), token indexes are 0-based as in the    *)
(* source, and None is the integer -1.                                     *)
(*                                                                         *)
(* Spec is the sweep of match_names on one list and SpecTwice two calls    *)
(* on one list; SpecCompare, SpecClean, SpecCheckGeo and SpecKey apply     *)
(* compare_node_names, name_list_clean, check_geo and alphanum_key on      *)
(* their own to inputs drawn by their initial predicates.                  *)
(***************************************************************************)
EXTENDS Integers, Sequences, FiniteSets, TLC

None == 0 - 1

\* ------------------------------------------------------------------ str

\* The characters of the modelled names, in increasing code point order.
Chars ==
    << "0", "1", "2", "3", "4", "5", "6", "7", "8", "9",
       "A", "B", "C", "D", "E", "F", "G", "H", "I", "J", "K", "L", "M",
       "N", "O", "P", "Q", "R", "S", "T", "U", "V", "W", "X", "Y", "Z",
       "_",
       "a", "b", "c", "d", "e", "f", "g", "h", "i", "j", "k", "l", "m",
       "n", "o", "p", "q", "r", "s", "t", "u", "v", "w", "x", "y", "z" >>

Ord(c) == CHOOSE k \in 1..Len(Chars) : Chars[k] = c

DigitChars == { Chars[k] : k \in 1..10 }
UpperChars == { Chars[k] : k \in 11..36 }
LowerChars == { Chars[k] : k \in 38..63 }
AlphaChars == UpperChars \cup LowerChars

\* str.isalpha(): non-empty and every character a letter.
isalpha(s) == Len(s) > 0 /\ \A k \in 1..Len(s) : s[k] \in AlphaChars

\* str.isdigit(): non-empty and every character a digit.
isdigit(s) == Len(s) > 0 /\ \A k \in 1..Len(s) : s[k] \in DigitChars

\* The str with the case of every letter kept.
same_case(s) == s

\* str.lower()
lower(s) == [k \in 1..Len(s) |->
               IF s[k] \in UpperChars THEN Chars[Ord(s[k]) + 27] ELSE s[k]]

\* int(s) of a run of decimal digits.
RECURSIVE int(_)
int(s) == IF Len(s) = 0 THEN 0
          ELSE 10 * int(SubSeq(s, 1, Len(s) - 1)) + (Ord(s[Len(s)]) - 1)

\* s.split("_"): the tokens between the underscores, empty ones included.
RECURSIVE split(_)
split(s) ==
    IF \A k \in 1..Len(s) : s[k] # "_" THEN << s >>
    ELSE LET p == CHOOSE k \in 1..Len(s) :
                      s[k] = "_" /\ \A m \in 1..(k - 1) : s[m] # "_"
         IN  << SubSeq(s, 1, p - 1) >> \o split(SubSeq(s, p + 1, Len(s)))

\* "_".join(name_list)
RECURSIVE join(_)
join(name_list) ==
    IF Len(name_list) = 0 THEN << >>
    ELSE IF Len(name_list) = 1 THEN name_list[1]
    ELSE name_list[1] \o << "_" >> \o join(Tail(name_list))

\* "".join(chunks)
RECURSIVE concat(_)
concat(chunks) ==
    IF Len(chunks) = 0 THEN << >> ELSE chunks[1] \o concat(Tail(chunks))

\* re.split("([0-9]+)", s): text and digit runs alternate, a (possibly
\* empty) text chunk first and last.  acc holds the finished chunks, cur the
\* chunk being read: a digit run exactly when Len(acc) is odd.
RECURSIVE re_split(_, _, _, _)
re_split(s, p, cur, acc) ==
    IF p > Len(s)
    THEN IF Len(acc) % 2 = 0 THEN Append(acc, cur)
         ELSE Append(Append(acc, cur), << >>)
    ELSE IF (s[p] \in DigitChars) = (Len(acc) % 2 = 1)
         THEN re_split(s, p + 1, Append(cur, s[p]), acc)
         ELSE re_split(s, p + 1, << s[p] >>, Append(acc, cur))

\* ------------------------------------------------------------ alphanum_key

\* One element of a sort key: an int or a str.
IntChunk(n) == [kind |-> "int", num |-> n, str |-> << >>]
StrChunk(s) == [kind |-> "str", num |-> 0, str |-> s]

\* try_int that never converts: a digit run stays a str.
try_int_never(str_chunk, cs_snstv) ==
    IF cs_snstv THEN StrChunk(str_chunk) ELSE StrChunk(lower(str_chunk))

try_int(str_chunk, cs_snstv) ==
    IF isdigit(str_chunk) THEN IntChunk(int(str_chunk))
    ELSE IF cs_snstv THEN StrChunk(str_chunk)
    ELSE StrChunk(lower(str_chunk))

\* alphanum_key with the empty chunks of re.split left out.
alphanum_key_no_empty_chunk(s, case_sensitive) ==
    LET chunks == SelectSeq(re_split(s, 1, << >>, << >>), LAMBDA c : Len(c) > 0)
    IN  [k \in 1..Len(chunks) |-> try_int(chunks[k], case_sensitive)]

alphanum_key(s, case_sensitive) ==
    LET chunks == re_split(s, 1, << >>, << >>)
    IN  [k \in 1..Len(chunks) |-> try_int(chunks[k], case_sensitive)]

\* Python 2 ordering of str: by code point, a proper prefix first.
RECURSIVE StrLess(_, _)
StrLess(a, b) ==
    IF Len(b) = 0 THEN FALSE
    ELSE IF Len(a) = 0 THEN TRUE
    ELSE IF a[1] # b[1] THEN Ord(a[1]) < Ord(b[1])
    ELSE StrLess(Tail(a), Tail(b))

\* Python 2 ordering of key elements: ints by value, strs as above, and any
\* int before any str.
ChunkLess(x, y) ==
    IF x.kind = "int" /\ y.kind = "int" THEN x.num < y.num
    ELSE IF x.kind = "str" /\ y.kind = "str" THEN StrLess(x.str, y.str)
    ELSE x.kind = "int"

\* Python ordering of lists: the first differing element decides, a proper
\* prefix first.
RECURSIVE KeyLess(_, _)
KeyLess(a, b) ==
    IF Len(b) = 0 THEN FALSE
    ELSE IF Len(a) = 0 THEN TRUE
    ELSE IF a[1] # b[1] THEN ChunkLess(a[1], b[1])
    ELSE KeyLess(Tail(a), Tail(b))

\* sorted(strs): stable insertion of each str after the strs not above it.
RECURSIVE insert_str(_, _)
insert_str(x, xs) ==
    IF Len(xs) = 0 THEN << x >>
    ELSE IF StrLess(x, xs[1]) THEN << x >> \o xs
    ELSE << xs[1] >> \o insert_str(x, Tail(xs))

\* The strs are left in the order given.
unsorted_strs(xs) == xs

RECURSIVE sorted_strs(_)
sorted_strs(xs) ==
    IF Len(xs) = 0 THEN << >>
    ELSE insert_str(xs[Len(xs)], sorted_strs(SubSeq(xs, 1, Len(xs) - 1)))

\* ------------------------------------------------------------------ nodes

\* A scene node as the pass reads it: Name, Object.SuperClassID, VertexCount,
\* GetMaterial() (HasMaterial false for None, else MaterialName is
\* GetMaterial().GetName()) and Children.
GeoNode(name, vertex_count, material) ==
    [Name |-> name, SuperClassID |-> "GeomObject", VertexCount |-> vertex_count,
     HasMaterial |-> TRUE, MaterialName |-> material, Children |-> << >>]

GroupNode(name, material, children) ==
    [Name |-> name, SuperClassID |-> "Helper", VertexCount |-> 0,
     HasMaterial |-> TRUE, MaterialName |-> material, Children |-> children]

\* The node with GetMaterial() returning None.
WithoutMaterial(node) ==
    [node EXCEPT !.HasMaterial = FALSE, !.MaterialName = << >>]

NodeNameLess(n1, n2) ==
    KeyLess(alphanum_key(n1.Name, FALSE), alphanum_key(n2.Name, FALSE))

\* sorted(nodes, key=lambda n: alphanum_key(n.Name)): a stable sort.
RECURSIVE insert_node(_, _)
insert_node(x, xs) ==
    IF Len(xs) = 0 THEN << x >>
    ELSE IF NodeNameLess(x, xs[1]) THEN << x >> \o xs
    ELSE << xs[1] >> \o insert_node(x, Tail(xs))

RECURSIVE sorted_nodes(_)
sorted_nodes(xs) ==
    IF Len(xs) = 0 THEN << >>
    ELSE insert_node(xs[Len(xs)], sorted_nodes(SubSeq(xs, 1, Len(xs) - 1)))

\* get_all_nodes(nodes): every node of the list with all its descendants,
\* ordered by alphanum_key of the name.
RECURSIVE get_all_nodes(_)
RECURSIVE all_nodes_list(_)
all_nodes_list(nodes) ==
    IF Len(nodes) = 0 THEN << >>
    ELSE (IF Len(nodes[1].Children) > 0
          THEN get_all_nodes(nodes[1].Children) ELSE << >>)
         \o << nodes[1] >> \o all_nodes_list(Tail(nodes))

get_all_nodes(nodes) == sorted_nodes(all_nodes_list(nodes))

RECURSIVE sum(_)
sum(xs) == IF Len(xs) = 0 THEN 0 ELSE xs[1] + sum(Tail(xs))

VertexCounts(ns) == [k \in 1..Len(ns) |-> ns[k].VertexCount]

\* [child.GetMaterial().GetName() for child in children if child.GetMaterial()]
RECURSIVE MaterialNames(_)
MaterialNames(children) ==
    IF Len(children) = 0 THEN << >>
    ELSE (IF children[1].HasMaterial THEN << children[1].MaterialName >> ELSE << >>)
         \o MaterialNames(Tail(children))

\* -------------------------------------------------------- match_names helpers

\* check_geo without the comparison of the vertex counts of two geometry nodes.
check_geo_any_vertex_count(node1, node2) ==
    IF node1.SuperClassID = "Helper" /\ node2.SuperClassID = "Helper"
    THEN LET node1_children == get_all_nodes(<< node1 >>)
             node2_children == get_all_nodes(<< node2 >>)
         IN  IF Len(node1_children) # Len(node2_children) THEN FALSE
             ELSE IF sum(VertexCounts(node1_children)) # sum(VertexCounts(node2_children))
             THEN FALSE
             ELSE sorted_strs(MaterialNames(node1_children))
                      = sorted_strs(MaterialNames(node2_children))
    ELSE /\ node1.HasMaterial
         /\ node2.HasMaterial
         /\ node1.MaterialName = node2.MaterialName

\* check_geo with the material of node2 compared only when there is one.
check_geo_material_of_node1(node1, node2) ==
    IF node1.SuperClassID = "Helper" /\ node2.SuperClassID = "Helper"
    THEN LET node1_children == get_all_nodes(<< node1 >>)
             node2_children == get_all_nodes(<< node2 >>)
         IN  IF Len(node1_children) # Len(node2_children) THEN FALSE
             ELSE IF sum(VertexCounts(node1_children)) # sum(VertexCounts(node2_children))
             THEN FALSE
             ELSE sorted_strs(MaterialNames(node1_children))
                      = sorted_strs(MaterialNames(node2_children))
    ELSE /\ node1.VertexCount = node2.VertexCount
         /\ node1.HasMaterial
         /\ node2.HasMaterial => node1.MaterialName = node2.MaterialName

\* check_geo with node1 required to have fewer vertices than node2.
check_geo_fewer_vertices(node1, node2) ==
    IF node1.SuperClassID = "Helper" /\ node2.SuperClassID = "Helper"
    THEN LET node1_children == get_all_nodes(<< node1 >>)
             node2_children == get_all_nodes(<< node2 >>)
         IN  IF Len(node1_children) # Len(node2_children) THEN FALSE
             ELSE IF sum(VertexCounts(node1_children)) >= sum(VertexCounts(node2_children))
             THEN FALSE
             ELSE sorted_strs(MaterialNames(node1_children))
                      = sorted_strs(MaterialNames(node2_children))
    ELSE /\ node1.VertexCount < node2.VertexCount
         /\ node1.HasMaterial
         /\ node2.HasMaterial
         /\ node1.MaterialName = node2.MaterialName

check_geo(node1, node2) ==
    IF node1.SuperClassID = "Helper" /\ node2.SuperClassID = "Helper"
    THEN LET node1_children == get_all_nodes(<< node1 >>)
             node2_children == get_all_nodes(<< node2 >>)
         IN  IF Len(node1_children) # Len(node2_children) THEN FALSE
             ELSE IF sum(VertexCounts(node1_children)) # sum(VertexCounts(node2_children))
             THEN FALSE
             ELSE sorted_strs(MaterialNames(node1_children))
                      = sorted_strs(MaterialNames(node2_children))
    ELSE /\ node1.VertexCount = node2.VertexCount
         /\ node1.HasMaterial
         /\ node2.HasMaterial
         /\ node1.MaterialName = node2.MaterialName

\* The 0-based indexes at which two token lists of equal length differ.
Mismatches(n1_name_list, n2_name_list) ==
    { s \in 0..(Len(n1_name_list) - 1) : n1_name_list[s + 1] # n2_name_list[s + 1] }

\* compare_node_names without the isalpha test.
compare_node_names_any_token(node1, node2) ==
    IF node1.Name = node2.Name THEN None
    ELSE LET n1_name_list == split(node1.Name)
             n2_name_list == split(node2.Name)
         IN  IF Len(n1_name_list) # Len(n2_name_list) THEN None
             ELSE LET mm == Mismatches(n1_name_list, n2_name_list)
                  IN  IF Cardinality(mm) > 1 THEN None
                      ELSE CHOOSE s \in mm : TRUE

\* compare_node_names with the isalpha test on the token of node1.
compare_node_names_alpha_of_node1(node1, node2) ==
    IF node1.Name = node2.Name THEN None
    ELSE LET n1_name_list == split(node1.Name)
             n2_name_list == split(node2.Name)
         IN  IF Len(n1_name_list) # Len(n2_name_list) THEN None
             ELSE LET mm == Mismatches(n1_name_list, n2_name_list)
                  IN  IF Cardinality(mm) > 1 THEN None
                      ELSE LET idx_of_mismatch == CHOOSE s \in mm : TRUE
                           IN  IF isalpha(n1_name_list[idx_of_mismatch + 1])
                               THEN None
                               ELSE idx_of_mismatch

compare_node_names(node1, node2) ==
    IF node1.Name = node2.Name THEN None
    ELSE LET n1_name_list == split(node1.Name)
             n2_name_list == split(node2.Name)
         IN  IF Len(n1_name_list) # Len(n2_name_list) THEN None
             ELSE LET mm == Mismatches(n1_name_list, n2_name_list)
                  IN  IF Cardinality(mm) > 1 THEN None
                      ELSE LET idx_of_mismatch == CHOOSE s \in mm : TRUE
                           IN  IF isalpha(n2_name_list[idx_of_mismatch + 1])
                               THEN None
                               ELSE idx_of_mismatch

\* The str chunks of alphanum_key(mismatch_str), the int chunks dropped.
RECURSIVE StrChunks(_)
StrChunks(key) ==
    IF Len(key) = 0 THEN << >>
    ELSE (IF key[1].kind # "int" THEN << key[1].str >> ELSE << >>)
         \o StrChunks(Tail(key))

\* list.pop(index) on a 0-based index: the list without that element.
pop(name_list, index) ==
    SubSeq(name_list, 1, index) \o SubSeq(name_list, index + 2, Len(name_list))

name_list_clean(name_list, indx_of_mismatch) ==
    LET mismatch_str == name_list[indx_of_mismatch + 1]
    IN  IF ~isalpha(mismatch_str) /\ ~isdigit(mismatch_str)
        THEN [name_list EXCEPT ![indx_of_mismatch + 1] =
                  concat(StrChunks(alphanum_key(mismatch_str, FALSE)))]
        ELSE IF isalpha(mismatch_str) THEN name_list
        ELSE IF Len(name_list) > 1 THEN pop(name_list, indx_of_mismatch)
        ELSE name_list

\* ----------------------------------------------------------------- inputs

\* Node names of the modelled scenes.
Name_lilly_01 == << "A", "E", "3", "4", "_", "0", "0", "2", "_", "l", "i", "l", "l", "y", "_", "0", "1" >>
Name_lilly_02 == << "A", "E", "3", "4", "_", "0", "0", "2", "_", "l", "i", "l", "l", "y", "_", "0", "2" >>
Name_weed_01 == << "A", "E", "3", "4", "_", "0", "0", "2", "_", "w", "e", "e", "d", "_", "0", "1" >>
Name_a1_b1 == << "a", "1", "_", "b", "1" >>
Name_a1_b2 == << "a", "1", "_", "b", "2" >>
Name_a1_c1 == << "a", "1", "_", "c", "1" >>
Name_a2_b1 == << "a", "2", "_", "b", "1" >>
Name_a2_b2 == << "a", "2", "_", "b", "2" >>
Name_1 == << "1" >>
Name_2 == << "2" >>
Name_lamp == << "l", "a", "m", "p" >>
Name_lamp001 == << "l", "a", "m", "p", "0", "0", "1" >>
Name_UNIQUE_1 == << "_", "U", "N", "I", "Q", "U", "E", "_", "N", "O", "D", "E", "S", "_", "_", "1" >>
Name_UNIQUE_2 == << "_", "U", "N", "I", "Q", "U", "E", "_", "N", "O", "D", "E", "S", "_", "_", "2" >>

Names ==
    { Name_lilly_01,
      Name_lilly_02,
      Name_weed_01,
      Name_a1_b1,
      Name_a1_b2,
      Name_a1_c1,
      Name_a2_b1,
      Name_a2_b2,
      Name_1,
      Name_2,
      Name_lamp,
      Name_lamp001,
      Name_UNIQUE_1,
      Name_UNIQUE_2 }

Leaf == << "L", "e", "a", "f" >>
Grass == << "G", "r", "a", "s", "s" >>

\* The key of the leftover bucket.
UNIQUE_NODES == << "_", "U", "N", "I", "Q", "U", "E", "_", "N", "O", "D", "E", "S", "_" >>

\* The geometry a top level node may have: a vertex count and a material for
\* a geometry node, the children of a group node.
GeoProfiles == { << 500, Leaf >>, << 300, Leaf >>, << 300, Grass >> }

ChildA == GeoNode(Name_1, 500, Leaf)
ChildB == GeoNode(Name_2, 300, Grass)

GroupProfiles ==
    { << ChildA, ChildB >>,
      << GroupNode(Name_lamp, Leaf, << ChildB >>) >> }

\* The rank of a name in the order of alphanum_key: names of equal key have
\* equal rank.
NameRank ==
    [nm \in Names |->
        Cardinality({ other \in Names :
            KeyLess(alphanum_key(other, FALSE), alphanum_key(nm, FALSE)) })]

\* The largest number of nodes in the list given to match_names.
MaxNodes == 3

\* Lists of names in the order that sorted(..., key=alphanum_key(x.Name))
\* leaves: names of equal key in any order.
SortedNameLists ==
    { nl \in UNION { [1..n -> Names] : n \in 0..MaxNodes } :
        \A k \in 1..(Len(nl) - 1) : NameRank[nl[k]] <= NameRank[nl[k + 1]] }

\* ------------------------------------------------------------- match_names

VARIABLES
    nodes,                      \* the argument of match_names
    pc,                         \* "outer", "inner", "done" or "KeyError"
    i,                          \* position of the anchor nodes[i]
    j,                          \* position of the candidate nodes[j]
    groups,                     \* dict: key str -> list of node positions
    matches,                    \* list of node positions
    skip_match,
    node1_name_list,
    index_of_mismatch,
    index_of_mismatch_compare,
    returned,                   \* the values returned by the calls made so far
    disk,                       \* the text files search_and_process keeps
    frame                       \* the locals of the function that is running
                                \* and what it reads of the scene

vars == << nodes, pc, i, j, groups, matches, skip_match, node1_name_list,
           index_of_mismatch, index_of_mismatch_compare, returned, disk,
           frame >>

\* The value of disk and of frame where no file is kept and no other
\* function is running.
Absent == << >>

in(x, list) == \E k \in 1..Len(list) : list[k] = x

EmptyDict == [k \in {} |-> << >>]

Init ==
    /\ \E nl \in SortedNameLists :
          \/ \E pr \in [1..Len(nl) -> GeoProfiles] :
                nodes = [k \in 1..Len(nl) |-> GeoNode(nl[k], pr[k][1], pr[k][2])]
          \/ \E pr \in [1..Len(nl) -> GroupProfiles] :
                nodes = [k \in 1..Len(nl) |-> GroupNode(nl[k], Leaf, pr[k])]
    /\ pc = "outer"
    /\ i = 1
    /\ j = 1
    /\ groups = EmptyDict
    /\ matches = << >>
    /\ skip_match = FALSE
    /\ node1_name_list = << >>
    /\ index_of_mismatch = None
    /\ index_of_mismatch_compare = None
    /\ returned = << >>
    /\ disk = Absent
    /\ frame = Absent

\* The flag is never set.
anchor_skip_never(anchor, matched, flag) == flag

\* Lines 1323-1324: the flag is set for an anchor that is already matched.
anchor_skip(anchor, matched, flag) == IF in(anchor, matched) THEN TRUE ELSE flag

\* Lines 1321-1339: the head of one outer iteration, for the anchor nodes[i].
OuterBegin ==
    /\ pc = "outer"
    /\ i <= Len(nodes) - 1
    /\ skip_match' = anchor_skip(i, matches, skip_match)
    /\ node1_name_list' = split(nodes[i].Name)
    /\ index_of_mismatch' = None
    /\ j' = i + 1
    /\ pc' = "inner"
    /\ UNCHANGED << nodes, i, groups, matches, index_of_mismatch_compare,
                    returned >>
    /\ UNCHANGED << disk, frame >>

\* Line 1372: the candidate's mismatch index against the locked one.
index_differs(compare, locked) == compare # locked

\* The cleaned name lists are not compared.
name_lists_never_differ(n1_name_list, n2_name_list) == FALSE

\* Line 1416: the two cleaned name lists.
name_lists_differ(n1_name_list, n2_name_list) == n1_name_list # n2_name_list

\* The anchor is added to a group that exists instead of replacing it.
new_group_keep(grps, matching_str, anchor) ==
    IF matching_str \in DOMAIN grps
    THEN [grps EXCEPT ![matching_str] = Append(@, anchor)]
    ELSE (matching_str :> << anchor >>) @@ grps

\* Line 1425: groups[matching_str] = [nodes[i]]
new_group(grps, matching_str, anchor) == (matching_str :> << anchor >>) @@ grps

\* Lines 1342-1431: one inner iteration, for the candidate nodes[j].
InnerIteration ==
    /\ pc = "inner"
    /\ j <= Len(nodes)
    /\ j' = j + 1
    /\ UNCHANGED << nodes, i, skip_match, returned >>
    /\ IF skip_match \/ ~check_geo(nodes[i], nodes[j])
       THEN /\ pc' = "inner"
            /\ UNCHANGED << groups, matches, node1_name_list, index_of_mismatch,
                            index_of_mismatch_compare >>
       ELSE LET compare == compare_node_names(nodes[i], nodes[j])
                first == index_of_mismatch = None
                locked == IF first THEN compare ELSE index_of_mismatch
                n1_list == IF first THEN name_list_clean(node1_name_list, locked)
                           ELSE node1_name_list
            IN  /\ index_of_mismatch_compare' = compare
                /\ IF compare = None
                   THEN /\ pc' = "inner"
                        /\ UNCHANGED << groups, matches, node1_name_list,
                                        index_of_mismatch >>
                   ELSE /\ index_of_mismatch' = locked
                        /\ node1_name_list' = n1_list
                        /\ IF \/ index_differs(compare, locked)
                              \/ name_lists_differ(n1_list,
                                     name_list_clean(split(nodes[j].Name), locked))
                           THEN /\ pc' = "inner"
                                /\ UNCHANGED << groups, matches >>
                           ELSE LET matching_str == join(n1_list)
                                    is_new == ~in(i, matches)
                                    grps == IF is_new
                                            THEN new_group(groups, matching_str, i)
                                            ELSE groups
                                    mtch == IF is_new THEN Append(matches, i)
                                            ELSE matches
                                IN  /\ matches' = Append(mtch, j)
                                    /\ IF matching_str \in DOMAIN grps
                                       THEN /\ groups' = [grps EXCEPT
                                                  ![matching_str] = Append(@, j)]
                                            /\ pc' = "inner"
                                       ELSE /\ groups' = grps
                                            /\ pc' = "KeyError"
    /\ UNCHANGED << disk, frame >>

\* Line 1439: the end of one outer iteration.
OuterEnd ==
    /\ pc = "inner"
    /\ j > Len(nodes)
    /\ skip_match' = FALSE
    /\ i' = i + 1
    /\ pc' = "outer"
    /\ UNCHANGED << nodes, j, groups, matches, node1_name_list, index_of_mismatch,
                    index_of_mismatch_compare, returned >>
    /\ UNCHANGED << disk, frame >>

\* [node for node in nodes if node not in matches]
unique_nodes(ns, matched) ==
    LET RECURSIVE from(_)
        from(k) == IF k > Len(ns) THEN << >>
                   ELSE (IF in(k, matched) THEN << >> ELSE << k >>) \o from(k + 1)
    IN  from(1)

\* Line 1442: the leftover bucket is written once the sweep is over.
Leftover ==
    /\ pc = "outer"
    /\ i > Len(nodes) - 1
    /\ groups' = (UNIQUE_NODES :> unique_nodes(nodes, matches)) @@ groups
    /\ pc' = "done"
    /\ UNCHANGED << nodes, i, j, matches, skip_match, node1_name_list,
                    index_of_mismatch, index_of_mismatch_compare, returned >>
    /\ UNCHANGED << disk, frame >>

Next == OuterBegin \/ InnerIteration \/ OuterEnd \/ Leftover

Spec == Init /\ [][Next]_vars

\* ------------------------------------------------------ match_names, twice

\* The names of the lists match_names is called on twice.
TwiceNames ==
    { Name_lilly_01, Name_lilly_02, Name_weed_01, Name_a1_b1, Name_a1_b2,
      Name_a2_b1, Name_UNIQUE_1, Name_UNIQUE_2 }

InitTwice ==
    /\ Init
    /\ \A k \in 1..Len(nodes) : nodes[k].Name \in TwiceNames

\* matches is kept from one call to the next.
matches_kept(matched) == matched

\* Line 1316: matches = [] at every call.
matches_of_call(matched) == << >>

\* Line 1444 and lines 1315-1318: match_names returns and is called again on
\* the same list.
Rerun ==
    /\ pc = "done"
    /\ Len(returned) = 0
    /\ returned' = Append(returned, groups)
    /\ groups' = EmptyDict
    /\ matches' = matches_of_call(matches)
    /\ skip_match' = FALSE
    /\ node1_name_list' = << >>
    /\ index_of_mismatch' = None
    /\ index_of_mismatch_compare' = None
    /\ i' = 1
    /\ j' = 1
    /\ pc' = "outer"
    /\ UNCHANGED nodes
    /\ UNCHANGED << disk, frame >>

NextTwice == Next \/ Rerun

SpecTwice == InitTwice /\ [][NextTwice]_vars

\* ------------------------------------------- compare_node_names on its own

Name_weed_02 == << "A", "E", "3", "4", "_", "0", "0", "2", "_", "w", "e", "e", "d", "_", "0", "2" >>
Name_garden_lamp == << "A", "E", "3", "4", "_", "0", "0", "2", "_", "g", "a", "r", "d", "e", "n", "_", "l", "a", "m", "p" >>
Name_garden_lamp001 == << "A", "E", "3", "4", "_", "0", "0", "2", "_", "g", "a", "r", "d", "e", "n", "_", "l", "a", "m", "p", "0", "0", "1" >>
Name_a1_ == << "a", "1", "_" >>

\* The names compare_node_names is applied to, in either order.
CompareNames ==
    Names \cup { Name_weed_02, Name_garden_lamp, Name_garden_lamp001, Name_a1_ }

InitCompare ==
    /\ \E n1 \in CompareNames, n2 \in CompareNames :
          nodes = << GeoNode(n1, 500, Leaf), GeoNode(n2, 500, Leaf) >>
    /\ pc = "compare"
    /\ i = 1
    /\ j = 2
    /\ groups = EmptyDict
    /\ matches = << >>
    /\ skip_match = FALSE
    /\ node1_name_list = << >>
    /\ index_of_mismatch = None
    /\ index_of_mismatch_compare = None
    /\ returned = << >>
    /\ disk = Absent
    /\ frame = Absent

\* Line 1350: index_of_mismatch_compare = compare_node_names(nodes[i], nodes[j])
Compare ==
    /\ pc = "compare"
    /\ index_of_mismatch_compare' = compare_node_names(nodes[i], nodes[j])
    /\ pc' = "compared"
    /\ UNCHANGED << nodes, i, j, groups, matches, skip_match, node1_name_list,
                    index_of_mismatch, returned >>
    /\ UNCHANGED << disk, frame >>

NextCompare == Compare

SpecCompare == InitCompare /\ [][NextCompare]_vars

\* --------------------------------------------- name_list_clean on its own

Name_garden_Lamp == << "A", "E", "3", "4", "_", "0", "0", "2", "_", "g", "a", "r", "d", "e", "n", "_", "L", "a", "m", "p" >>
Name_garden_Lamp001 == << "A", "E", "3", "4", "_", "0", "0", "2", "_", "g", "a", "r", "d", "e", "n", "_", "L", "a", "m", "p", "0", "0", "1" >>
Name_a1B2c == << "a", "1", "B", "2", "c" >>

\* The names whose token lists name_list_clean is applied to, at every index.
CleanNames == CompareNames \cup { Name_garden_Lamp, Name_garden_Lamp001, Name_a1B2c }

\* Line 1330 and the index line 1360 locks.
InitClean ==
    /\ \E name \in CleanNames :
          /\ nodes = << GeoNode(name, 500, Leaf) >>
          /\ node1_name_list = split(name)
          /\ index_of_mismatch \in 0..(Len(split(name)) - 1)
    /\ pc = "clean"
    /\ i = 1
    /\ j = 1
    /\ groups = EmptyDict
    /\ matches = << >>
    /\ skip_match = FALSE
    /\ index_of_mismatch_compare = None
    /\ returned = << >>
    /\ disk = Absent
    /\ frame = Absent

\* Line 1362: node1_name_list = name_list_clean(node1_name_list, index_of_mismatch)
Clean ==
    /\ pc = "clean"
    /\ node1_name_list' = name_list_clean(node1_name_list, index_of_mismatch)
    /\ pc' = "cleaned"
    /\ UNCHANGED << nodes, i, j, groups, matches, skip_match, index_of_mismatch,
                    index_of_mismatch_compare, returned >>
    /\ UNCHANGED << disk, frame >>

NextClean == Clean

SpecClean == InitClean /\ [][NextClean]_vars

\* --------------------------------------------------- check_geo on its own

\* The geometry nodes check_geo is applied to: some without vertices, some
\* without a material.
CheckGeoGeometry ==
    { GeoNode(Name_1, v, m) : v \in { 0, 300, 500 }, m \in { Leaf, Grass } }
    \cup { WithoutMaterial(GeoNode(Name_1, v, Leaf)) : v \in { 0, 300, 500 } }

\* The children of the group nodes check_geo is applied to.
CheckGeoChildren ==
    { << ChildA, ChildB >>,
      << GeoNode(Name_1, 300, Grass), GeoNode(Name_2, 500, Leaf) >>,
      << GroupNode(Name_lamp, Leaf, << ChildB >>) >>,
      << GeoNode(Name_1, 300, Leaf), GeoNode(Name_2, 300, Leaf),
         GeoNode(Name_lamp001, 300, Grass) >>,
      << GeoNode(Name_1, 300, Leaf), GeoNode(Name_2, 300, Grass),
         GeoNode(Name_lamp001, 300, Grass) >>,
      << GeoNode(Name_1, 500, Leaf), WithoutMaterial(GeoNode(Name_2, 300, Leaf)) >> }

\* The group nodes check_geo is applied to, with and without a material.
CheckGeoGroups ==
    { GroupNode(Name_garden_lamp, Leaf, c) : c \in CheckGeoChildren }
    \cup { WithoutMaterial(GroupNode(Name_garden_lamp, Leaf, c)) : c \in CheckGeoChildren }

CheckGeoNodes == CheckGeoGeometry \cup CheckGeoGroups

InitCheckGeo ==
    /\ \E node1 \in CheckGeoNodes, node2 \in CheckGeoNodes :
          nodes = << node1, node2 >>
    /\ pc = "check"
    /\ i = 1
    /\ j = 2
    /\ groups = EmptyDict
    /\ matches = << >>
    /\ skip_match = FALSE
    /\ node1_name_list = << >>
    /\ index_of_mismatch = None
    /\ index_of_mismatch_compare = None
    /\ returned = << >>
    /\ disk = Absent
    /\ frame = Absent

\* Line 1347: check_geo(nodes[i], nodes[j]); then the same two nodes are
\* given to it the other way round.
CheckGeo ==
    /\ pc = "check"
    /\ returned' = Append(returned, check_geo(nodes[i], nodes[j]))
    /\ i' = j
    /\ j' = i
    /\ pc' = IF Len(returned) = 0 THEN "check" ELSE "checked"
    /\ UNCHANGED << nodes, groups, matches, skip_match, node1_name_list,
                    index_of_mismatch, index_of_mismatch_compare >>
    /\ UNCHANGED << disk, frame >>

NextCheckGeo == CheckGeo

SpecCheckGeo == InitCheckGeo /\ [][NextCheckGeo]_vars

\* ------------------------------------------------- alphanum_key on its own

Name_item2 == << "i", "t", "e", "m", "2" >>
Name_item10 == << "i", "t", "e", "m", "1", "0" >>
Name_Item02 == << "I", "t", "e", "m", "0", "2" >>
Name_a1b == << "a", "1", "b" >>
Name_B == << "B" >>
Name_b10a2 == << "b", "1", "0", "a", "2" >>

\* The characters of the short strings that are keyed.
KeyChars == { "0", "1", "a" }

\* The largest length of the short strings that are keyed.
MaxKeyLen == 2

\* The strings alphanum_key is applied to: every string of KeyChars up to
\* MaxKeyLen, the empty string included, and some longer names.
KeyStrings ==
    UNION { [1..n -> KeyChars] : n \in 0..MaxKeyLen }
    \cup { Name_item2, Name_item10, Name_Item02, Name_a1b, Name_B, Name_b10a2 }

InitKey ==
    /\ \E a \in KeyStrings, b \in KeyStrings, c \in KeyStrings :
          nodes = << GeoNode(a, 500, Leaf), GeoNode(b, 500, Leaf),
                     GeoNode(c, 500, Leaf) >>
    /\ pc = "key"
    /\ i = 1
    /\ j = 1
    /\ groups = EmptyDict
    /\ matches = << >>
    /\ skip_match = FALSE
    /\ node1_name_list = << >>
    /\ index_of_mismatch = None
    /\ index_of_mismatch_compare = None
    /\ returned = << >>
    /\ disk = Absent
    /\ frame = Absent

\* key=lambda n: alphanum_key(n.Name), called by sorted on every node of the
\* list.
Key ==
    /\ pc = "key"
    /\ returned' = [k \in 1..Len(nodes) |-> alphanum_key(nodes[k].Name, FALSE)]
    /\ pc' = "keyed"
    /\ UNCHANGED << nodes, i, j, groups, matches, skip_match, node1_name_list,
                    index_of_mismatch, index_of_mismatch_compare >>
    /\ UNCHANGED << disk, frame >>

NextKey == Key

SpecKey == InitKey /\ [][NextKey]_vars

\* ------------------------------ alphanum_key, with and without the case

Name_ABC2 == << "A", "B", "C", "2" >>
Name_abc2 == << "a", "b", "c", "2" >>
Name_Abc2 == << "A", "b", "c", "2" >>
Name_abC2 == << "a", "b", "C", "2" >>
Name_ABC10 == << "A", "B", "C", "1", "0" >>
Name_abc10 == << "a", "b", "c", "1", "0" >>
Name_b == << "b" >>
Name_2A == << "2", "A" >>
Name_2a == << "2", "a" >>
Name_a1b2c == << "a", "1", "b", "2", "c" >>

\* The strings alphanum_key is applied to with either value of
\* case_sensitive.
KeyCaseStrings ==
    { Name_ABC2, Name_abc2, Name_Abc2, Name_abC2, Name_ABC10, Name_abc10,
      Name_B, Name_b, Name_2A, Name_2a, Name_a1B2c, Name_a1b2c, Name_2,
      Name_item2, Name_Item02 }

InitKeyCase ==
    /\ \E a \in KeyCaseStrings, b \in KeyCaseStrings :
          nodes = << GeoNode(a, 500, Leaf), GeoNode(b, 500, Leaf) >>
    /\ pc = "key_case"
    /\ i = 1
    /\ j = 1
    /\ groups = EmptyDict
    /\ matches = << >>
    /\ skip_match = FALSE
    /\ node1_name_list = << >>
    /\ index_of_mismatch = None
    /\ index_of_mismatch_compare = None
    /\ returned = << >>
    /\ disk = Absent
    /\ frame = Absent

\* alphanum_key(s, case_sensitive) applied to the two names with one value of
\* case_sensitive, which pc records.
KeyCase ==
    /\ pc = "key_case"
    /\ \E case_sensitive \in BOOLEAN :
          /\ returned' = [k \in 1..Len(nodes) |->
                             alphanum_key(nodes[k].Name, case_sensitive)]
          /\ pc' = IF case_sensitive THEN "keyed_case_sensitive"
                   ELSE "keyed_case_insensitive"
    /\ UNCHANGED << nodes, i, j, groups, matches, skip_match, node1_name_list,
                    index_of_mismatch, index_of_mismatch_compare >>
    /\ UNCHANGED << disk, frame >>

NextKeyCase == KeyCase

SpecKeyCase == InitKeyCase /\ [][NextKeyCase]_vars

\* ------------------------------------- get_asset_nodes and export_nodes

\* The names of the top level nodes of the scenes that are exported.
AssetNames == { Name_lilly_01, Name_lilly_02, Name_a1_b2, Name_a2_b1, Name_a2_b2 }

\* The largest number of top level nodes that include_node lets through.
MaxTopLevelNodes == 4

\* What a top level node is: a geometry node of 500 or of 300 vertices, or a
\* group node with two children.
AssetKinds == { "geometry500", "geometry300", "group" }

AssetNode(name, kind) ==
    IF kind = "geometry500" THEN GeoNode(name, 500, Leaf)
    ELSE IF kind = "geometry300" THEN GeoNode(name, 300, Leaf)
    ELSE GroupNode(name, Leaf, << ChildA, ChildB >>)

\* Lines 1061-1063: the lists sorted(..., key=alphanum_key(x.Name)) leaves.
TopLevelNodeLists ==
    { [k \in 1..Len(nl) |-> AssetNode(nl[k], kinds[k])] :
        <<nl, kinds>> \in
            { pair \in UNION { [1..n -> AssetNames] \X [1..n -> AssetKinds] :
                                   n \in 0..MaxTopLevelNodes } :
                \A k \in 1..(Len(pair[1]) - 1) :
                    NameRank[pair[1][k]] <= NameRank[pair[1][k + 1]] } }

\* The positions in top_level_nodes of its group nodes (is_group) or of its
\* other nodes, in increasing order.
TopLevelPositions(top_level_nodes, is_group) ==
    LET chosen == { k \in 1..Len(top_level_nodes) :
                      (top_level_nodes[k].SuperClassID = "Helper"
                          /\ Len(top_level_nodes[k].Children) > 0) = is_group }
    IN  [n \in 1..Cardinality(chosen) |->
            CHOOSE k \in chosen : Cardinality({ m \in chosen : m < k }) = n - 1]

\* Lines 1065-1066.
geo_nodes(top_level_nodes) ==
    LET positions == TopLevelPositions(top_level_nodes, FALSE)
    IN  [n \in 1..Len(positions) |-> top_level_nodes[positions[n]]]

\* Lines 1067-1069.
group_nodes(top_level_nodes) ==
    LET positions == TopLevelPositions(top_level_nodes, TRUE)
    IN  [n \in 1..Len(positions) |-> top_level_nodes[positions[n]]]

\* The mapping a call of match_names returned, each node named by its
\* position in top_level_nodes.
AtTopLevel(grps, positions) ==
    [key \in DOMAIN grps |->
        [n \in 1..Len(grps[key]) |-> positions[grps[key][n]]]]

\* returned holds top_level_nodes, then matched_geo_nodes, then the
\* matched_nodes that get_asset_nodes returns, then the nodes export_nodes
\* gave to export_node.
InitAssets ==
    /\ \E top_level_nodes \in TopLevelNodeLists :
          /\ returned = << top_level_nodes >>
          /\ nodes = geo_nodes(top_level_nodes)
    /\ pc = "outer"
    /\ i = 1
    /\ j = 1
    /\ groups = EmptyDict
    /\ matches = << >>
    /\ skip_match = FALSE
    /\ node1_name_list = << >>
    /\ index_of_mismatch = None
    /\ index_of_mismatch_compare = None
    /\ disk = Absent
    /\ frame = Absent

\* Lines 1071-1072: match_names(geo_nodes) has returned and
\* match_names(group_nodes) is called.
MatchGroupNodes ==
    /\ pc = "done"
    /\ Len(returned) = 1
    /\ returned' = Append(returned,
                          AtTopLevel(groups, TopLevelPositions(returned[1], FALSE)))
    /\ nodes' = group_nodes(returned[1])
    /\ groups' = EmptyDict
    /\ matches' = matches_of_call(matches)
    /\ skip_match' = FALSE
    /\ node1_name_list' = << >>
    /\ index_of_mismatch' = None
    /\ index_of_mismatch_compare' = None
    /\ i' = 1
    /\ j' = 1
    /\ pc' = "outer"
    /\ UNCHANGED << disk, frame >>

\* Lines 1074-1081: the two mappings merged by key.
merge(matched_geo_nodes, matched_group_nodes) ==
    [grp_name \in DOMAIN matched_geo_nodes \cup DOMAIN matched_group_nodes |->
        IF grp_name \in DOMAIN matched_geo_nodes
        THEN IF grp_name \in DOMAIN matched_group_nodes
             THEN matched_geo_nodes[grp_name] \o matched_group_nodes[grp_name]
             ELSE matched_geo_nodes[grp_name]
        ELSE matched_group_nodes[grp_name]]

\* Lines 1072-1108: match_names(group_nodes) has returned, the two mappings
\* are merged and get_asset_nodes returns.
MergeMatched ==
    /\ pc = "done"
    /\ Len(returned) = 2
    /\ returned' = Append(returned,
                          merge(returned[2],
                                AtTopLevel(groups, TopLevelPositions(returned[1], TRUE))))
    /\ pc' = "merged"
    /\ UNCHANGED << nodes, i, j, groups, matches, skip_match, node1_name_list,
                    index_of_mismatch, index_of_mismatch_compare >>
    /\ UNCHANGED << disk, frame >>

\* clean_name: the characters of the name that are in string.printable.
clean_name(name_string) ==
    SelectSeq(name_string, LAMBDA c : \E k \in 1..Len(Chars) : Chars[k] = c)

\* The last node of the list.
representative_last(members) == members[Len(members)]

\* Line 841: groups_to_export.get(group_name)[0]
representative(members) == members[1]

\* Line 846: nodes.sort(key=lambda x: alphanum_key(x[1].lower())), a stable
\* sort, with x[1] the clean_name of the node; a node is its position in
\* top_level_nodes.
RECURSIVE insert_export(_, _, _)
insert_export(x, xs, top_level_nodes) ==
    LET sort_key(position) ==
            alphanum_key(lower(clean_name(top_level_nodes[position].Name)), FALSE)
    IN  IF Len(xs) = 0 THEN << x >>
        ELSE IF KeyLess(sort_key(x), sort_key(xs[1])) THEN << x >> \o xs
        ELSE << xs[1] >> \o insert_export(x, Tail(xs), top_level_nodes)

RECURSIVE sort_exports(_, _)
sort_exports(xs, top_level_nodes) ==
    IF Len(xs) = 0 THEN << >>
    ELSE insert_export(xs[Len(xs)],
                       sort_exports(SubSeq(xs, 1, Len(xs) - 1), top_level_nodes),
                       top_level_nodes)

\* Lines 838-873: the nodes given to export_node, one call each, in the order
\* of the sort of line 846.  The keys of the dict come in any order.
ExportNodes ==
    /\ pc = "merged"
    /\ LET groups_to_export == returned[3]
           group_names == DOMAIN groups_to_export \ { UNIQUE_NODES }
       IN  \E order \in [1..Cardinality(group_names) -> group_names] :
              /\ \A group_name \in group_names :
                    \E k \in DOMAIN order : order[k] = group_name
              /\ returned' =
                    Append(returned,
                           sort_exports(
                               [k \in DOMAIN order |->
                                   representative(groups_to_export[order[k]])]
                               \o groups_to_export[UNIQUE_NODES],
                               returned[1]))
    /\ pc' = "exported"
    /\ UNCHANGED << nodes, i, j, groups, matches, skip_match, node1_name_list,
                    index_of_mismatch, index_of_mismatch_compare >>
    /\ UNCHANGED << disk, frame >>

NextAssets == Next \/ MatchGroupNodes \/ MergeMatched \/ ExportNodes

SpecAssets == InitAssets /\ [][NextAssets]_vars

\* ------------------------------------------------------ search_and_process

\* Line 109.
IGNORE_IN_MAX_FILE_NAMES == << << "c", "o", "r", "o", "n", "a" >> >>

\* Line 117.
MAX_FILE_OLDEST == FALSE

\* `sub in s` of two strs.
contains(sub, s) ==
    \E k \in 0..(Len(s) - Len(sub)) : SubSeq(s, k + 1, k + Len(sub)) = sub

\* Lines 1133-1147.
is_max_file_path_clean(path) ==
    LET elements == SelectSeq(IGNORE_IN_MAX_FILE_NAMES,
                              LAMBDA e : contains(lower(e), lower(path)))
    IN  Len(elements) = 0

\* The two newest MAX files of the tree that is searched.
Path_Corona_s3 == << "C", "o", "r", "o", "n", "a", "_", "s", "3", "_", "m", "a", "x" >>
Path_s4_corona == << "s", "4", "_", "c", "o", "r", "o", "n", "a", "_", "m", "a", "x" >>

\* os.path.getmtime of the MAX files of the tree.
getmtime(f) ==
    IF f = Path_Corona_s3 \/ f = Path_s4_corona THEN 2 ELSE 1

\* The lists max_walk yields (lines 1468-1469): the MAX files of one
\* directory, in the order of their names.
Batches ==
    { << << "s", "1", "_", "m", "a", "x" >> >>,
      << << "c", "o", "r", "o", "n", "a", "_", "m", "a", "x" >> >>,
      << Path_Corona_s3, << "s", "3", "_", "m", "a", "x" >> >>,
      << << "s", "4", "_", "C", "O", "R", "O", "N", "A", "_", "o", "l", "d",
            "_", "m", "a", "x" >>,
         Path_s4_corona >> }

MaxBatches == 3

MaxRuns == 2

\* What max_walk(search_path) yields, one list after the other: every
\* directory of the tree is yielded once.
MaxWalks ==
    { walk \in UNION { [1..n -> Batches] : n \in 1..MaxBatches } :
        \A a \in DOMAIN walk, b \in DOMAIN walk : a # b => walk[a] # walk[b] }

\* Line 2021: files.sort(key=os.path.getmtime), a stable sort.
RECURSIVE insert_by_mtime(_, _)
insert_by_mtime(f, files) ==
    IF Len(files) = 0 THEN << f >>
    ELSE IF getmtime(f) < getmtime(files[1]) THEN << f >> \o files
    ELSE << files[1] >> \o insert_by_mtime(f, Tail(files))

RECURSIVE sort_by_mtime(_)
sort_by_mtime(files) ==
    IF Len(files) = 0 THEN << >>
    ELSE insert_by_mtime(files[Len(files)],
                         sort_by_mtime(SubSeq(files, 1, Len(files) - 1)))

\* reversed(files)
reversed(files) == [k \in 1..Len(files) |-> files[Len(files) + 1 - k]]

\* Lines 2019-2024: the files of the batch that are left to choose from.
files_to_choose(files) ==
    IF Len(files) > 1
    THEN LET by_mtime == sort_by_mtime(files)
             ordered == IF MAX_FILE_OLDEST THEN by_mtime ELSE reversed(by_mtime)
         IN  SelectSeq(ordered, is_max_file_path_clean)
    ELSE files

\* The cursor path is found in no list.
cursor_in_none(path, files) == FALSE

\* Line 2008: most_recent_processed_file_path in files
cursor_in(path, files) == in(path, files)

\* The locals of search_and_process when a run starts.  The cursor path is
\* kept as the text files are: empty for None, else holding the one str.
NewFrame(run) ==
    [ run |-> run,
      most_recent_processed_file_path |-> << >>,
      skip |-> FALSE,
      count |-> 0,
      cur_count |-> 0,
      cur_success_count |-> 0,
      batch |-> 1,
      max_file |-> << >>,
      process_success |-> FALSE ]

\* The tree is given and none of the three text files exists.  A text file
\* is the sequence of what was written to it, empty when it does not exist.
InitSearch ==
    /\ \E walk \in MaxWalks :
          disk = [ max_walk |-> walk, manifest |-> << >>, current |-> << >>,
                   failed |-> << >> ]
    /\ frame = NewFrame(1)
    /\ pc = "search_and_process"
    /\ returned = << >>
    /\ nodes = << >>
    /\ i = 1
    /\ j = 1
    /\ groups = EmptyDict
    /\ matches = << >>
    /\ skip_match = FALSE
    /\ node1_name_list = << >>
    /\ index_of_mismatch = None
    /\ index_of_mismatch_compare = None

\* Lines 1985-2001: the cursor file is read when it exists.
ReadCursor ==
    /\ pc = "search_and_process"
    /\ frame' = IF Len(disk.current) > 0
                THEN [frame EXCEPT !.most_recent_processed_file_path =
                                       << disk.current[1] >>,
                                   !.skip = TRUE]
                ELSE frame
    /\ pc' = "walk"
    /\ UNCHANGED << disk, returned >>
    /\ UNCHANGED << nodes, i, j, groups, matches, skip_match, node1_name_list,
                    index_of_mismatch, index_of_mismatch_compare >>

\* Lines 2006-2011: a list that is yielded while skip is set.
SkipBatch ==
    /\ pc = "walk"
    /\ frame.batch <= Len(disk.max_walk)
    /\ frame.skip
    /\ frame' = [frame EXCEPT
                    !.count = @ + 1,
                    !.skip = ~cursor_in(frame.most_recent_processed_file_path[1],
                                        disk.max_walk[frame.batch]),
                    !.batch = @ + 1]
    /\ UNCHANGED << pc, disk, returned >>
    /\ UNCHANGED << nodes, i, j, groups, matches, skip_match, node1_name_list,
                    index_of_mismatch, index_of_mismatch_compare >>

\* Lines 2013-2031: a file of the list is chosen and given to process_scene,
\* which returns true or false; a list with no file left is passed over.
ProcessBatch ==
    /\ pc = "walk"
    /\ frame.batch <= Len(disk.max_walk)
    /\ ~frame.skip
    /\ LET files == files_to_choose(disk.max_walk[frame.batch])
       IN  IF Len(files) > 0
           THEN \E process_success \in BOOLEAN :
                   /\ frame' = [frame EXCEPT !.max_file = files[1],
                                   !.process_success = process_success]
                   /\ returned' = Append(returned,
                                      [ run |-> frame.run,
                                        batch |-> frame.batch,
                                        scn_file_path |-> files[1],
                                        process_success |-> process_success ])
                   /\ pc' = "processed"
           ELSE /\ frame' = [frame EXCEPT !.batch = @ + 1]
                /\ UNCHANGED << pc, returned >>
    /\ UNCHANGED disk
    /\ UNCHANGED << nodes, i, j, groups, matches, skip_match, node1_name_list,
                    index_of_mismatch, index_of_mismatch_compare >>

\* Lines 2033-2036: the path is appended to the manifest file.
WriteManifest ==
    /\ pc = "processed"
    /\ frame.process_success
    /\ disk' = [disk EXCEPT !.manifest = Append(@, frame.max_file)]
    /\ pc' = "manifest_written"
    /\ UNCHANGED << frame, returned >>
    /\ UNCHANGED << nodes, i, j, groups, matches, skip_match, node1_name_list,
                    index_of_mismatch, index_of_mismatch_compare >>

\* Lines 2037-2050: the path is written to the cursor file.
WriteCurrent ==
    /\ pc = "manifest_written"
    /\ disk' = [disk EXCEPT !.current = << frame.max_file >>]
    /\ frame' = [frame EXCEPT !.cur_success_count = @ + 1,
                              !.count = @ + 1,
                              !.cur_count = @ + 1,
                              !.batch = @ + 1]
    /\ pc' = "walk"
    /\ UNCHANGED returned
    /\ UNCHANGED << nodes, i, j, groups, matches, skip_match, node1_name_list,
                    index_of_mismatch, index_of_mismatch_compare >>

\* Lines 2040-2050: the path is appended to the file of the failed scenes.
WriteFailed ==
    /\ pc = "processed"
    /\ ~frame.process_success
    /\ disk' = [disk EXCEPT !.failed = Append(@, frame.max_file)]
    /\ frame' = [frame EXCEPT !.count = @ + 1,
                              !.cur_count = @ + 1,
                              !.batch = @ + 1]
    /\ pc' = "walk"
    /\ UNCHANGED returned
    /\ UNCHANGED << nodes, i, j, groups, matches, skip_match, node1_name_list,
                    index_of_mismatch, index_of_mismatch_compare >>

\* Lines 2052-2057: the walk is over.
SearchEnd ==
    /\ pc = "walk"
    /\ frame.batch > Len(disk.max_walk)
    /\ pc' = "searched"
    /\ UNCHANGED << disk, frame, returned >>
    /\ UNCHANGED << nodes, i, j, groups, matches, skip_match, node1_name_list,
                    index_of_mismatch, index_of_mismatch_compare >>

\* Lines 2101-2103: the script is started again, after the run before it was
\* over or was interrupted between two statements that write a file.  The
\* files stay as they are.
Resume ==
    /\ pc \in { "walk", "processed", "manifest_written", "searched" }
    /\ frame.run < MaxRuns
    /\ frame' = NewFrame(frame.run + 1)
    /\ pc' = "search_and_process"
    /\ UNCHANGED << disk, returned >>
    /\ UNCHANGED << nodes, i, j, groups, matches, skip_match, node1_name_list,
                    index_of_mismatch, index_of_mismatch_compare >>

\* The statements of search_and_process.
RunSearch ==
    \/ ReadCursor
    \/ SkipBatch
    \/ ProcessBatch
    \/ WriteManifest
    \/ WriteCurrent
    \/ WriteFailed
    \/ SearchEnd

NextSearch == RunSearch \/ Resume

SpecSearch == InitSearch /\ [][NextSearch]_vars

\* A run that is not interrupted goes on to its next statement.
SpecSearchFair == SpecSearch /\ WF_vars(RunSearch)

\* ------------------------------------------------------------ process_scene

\* Line 93.
DEBUG_SKIP_SCENE_CHECKIN == FALSE

MaxMissing == 3

\* The missing files of the scene that is opened, in the order of
\* collect_scene_files; findable tells whether find_missing_filepaths
\* (lines 1513-1533) finds a directory that holds the file.
MissingFiles ==
    { files \in UNION { [1..n -> [ name : { "wood.jpg", "leaf.png",
                                                "grass.vrmesh", "bark.tif" },
                                       findable : BOOLEAN ]] :
                            n \in 0..MaxMissing } :
        \A a \in DOMAIN files, b \in DOMAIN files :
            a # b => files[a].name # files[b].name }

\* Lines 1535-1544: the names of the files that are missing now.
get_missing_files(scene) == [k \in 1..Len(scene) |-> scene[k].name]

\* Python's bool() of the value add_session_paths returned, kept as the
\* cursor path is: empty for None, else holding the one list.
bool(value) == Len(value) > 0 /\ Len(value[1]) > 0

\* Line 1597 to 1610: the scene is opened.
InitScene ==
    /\ \E files \in MissingFiles :
          frame = [ scene |-> files,
                    session_paths |-> << >>,
                    calls |-> 1,
                    missing_files |-> << >>,
                    check_in_scene |-> FALSE,
                    export_nodes |-> FALSE ]
    /\ disk = Absent
    /\ pc = "add_session_paths"
    /\ returned = << >>
    /\ nodes = << >>
    /\ i = 1
    /\ j = 1
    /\ groups = EmptyDict
    /\ matches = << >>
    /\ skip_match = FALSE
    /\ node1_name_list = << >>
    /\ index_of_mismatch = None
    /\ index_of_mismatch_compare = None

\* Lines 1497-1505: a call of add_session_paths finds a directory for the
\* first missing file, adds it to the session paths, through which the file
\* is found from now on, and calls itself.
AddSessionPath ==
    /\ pc = "add_session_paths"
    /\ LET mssng_files == get_missing_files(frame.scene)
       IN  /\ Len(mssng_files) > 0
           /\ frame.scene[1].findable
           /\ frame' = [frame EXCEPT
                           !.session_paths = Append(@, mssng_files[1]),
                           !.scene = Tail(@),
                           !.calls = @ + 1]
    /\ UNCHANGED << pc, disk, returned >>
    /\ UNCHANGED << nodes, i, j, groups, matches, skip_match, node1_name_list,
                    index_of_mismatch, index_of_mismatch_compare >>

\* Lines 1505-1511 and 1614: the innermost call returns mssng_files or [];
\* a call that called itself drops that value (line 1507 has no return) and
\* returns None.
add_session_paths_returns(calls, value) ==
    IF calls = 1 THEN << value >> ELSE << >>

\* Lines 1497-1511, 1614: no directory is found for the first missing file,
\* or no file is missing: the calls return and missing_files is assigned.
AddSessionPathsReturn ==
    /\ pc = "add_session_paths"
    /\ LET mssng_files == get_missing_files(frame.scene)
       IN  /\ Len(mssng_files) > 0 => ~frame.scene[1].findable
           /\ frame' = [frame EXCEPT !.missing_files =
                           add_session_paths_returns(frame.calls, mssng_files)]
    /\ pc' = "missing_files"
    /\ UNCHANGED << disk, returned >>
    /\ UNCHANGED << nodes, i, j, groups, matches, skip_match, node1_name_list,
                    index_of_mismatch, index_of_mismatch_compare >>

\* Lines 1623-1637: the scene is skipped; remove_added_session_paths
\* (lines 1546-1554) deletes the session paths that were added.
SkipScene ==
    /\ pc = "missing_files"
    /\ ~DEBUG_SKIP_SCENE_CHECKIN
    /\ bool(frame.missing_files)
    /\ frame' = [frame EXCEPT !.session_paths = << >>]
    /\ returned' = Append(returned, FALSE)
    /\ pc' = "returned"
    /\ UNCHANGED disk
    /\ UNCHANGED << nodes, i, j, groups, matches, skip_match, node1_name_list,
                    index_of_mismatch, index_of_mismatch_compare >>

\* Lines 1638-1645: the scene is checked in.
CheckInScene ==
    /\ pc = "missing_files"
    /\ ~DEBUG_SKIP_SCENE_CHECKIN
    /\ ~bool(frame.missing_files)
    /\ frame' = [frame EXCEPT !.check_in_scene = TRUE]
    /\ pc' = "get_asset_nodes"
    /\ UNCHANGED << disk, returned >>
    /\ UNCHANGED << nodes, i, j, groups, matches, skip_match, node1_name_list,
                    index_of_mismatch, index_of_mismatch_compare >>

\* Lines 1649-1759: the nodes are exported; the rest of process_scene ends
\* with True or with False.
ExportScene ==
    /\ pc = "get_asset_nodes"
    /\ frame' = [frame EXCEPT !.export_nodes = TRUE]
    /\ \E success \in BOOLEAN : returned' = Append(returned, success)
    /\ pc' = "returned"
    /\ UNCHANGED disk
    /\ UNCHANGED << nodes, i, j, groups, matches, skip_match, node1_name_list,
                    index_of_mismatch, index_of_mismatch_compare >>

NextScene ==
    \/ AddSessionPath
    \/ AddSessionPathsReturn
    \/ SkipScene
    \/ CheckInScene
    \/ ExportScene

SpecScene == InitScene /\ [][NextScene]_vars

\* ------------------------------------------------------------- properties

\* The positions that are members of the list under key.
Members(key) == { groups[key][k] : k \in 1..Len(groups[key]) }

\* The keys of the canonical groups: every key the sweep wrote.  Once the
\* leftover bucket is written its key names the bucket.
CanonicalKeys ==
    IF pc = "done" THEN DOMAIN groups \ { UNIQUE_NODES } ELSE DOMAIN groups

\* The keys whose list holds the node at position k.
Locations(k) == { key \in DOMAIN groups : k \in Members(key) }

\* C1: when match_names returns, every input node is a member of at least one
\* list of the returned mapping, a canonical group or the leftover bucket.
C1_NoNodeOmitted ==
    pc = "done" => \A k \in 1..Len(nodes) : Locations(k) # {}

\* C2: when match_names returns, no input node is a member of more than one
\* list of the returned mapping.
C2_AtMostOneLocation ==
    pc = "done" => \A k \in 1..Len(nodes) : Cardinality(Locations(k)) <= 1

\* C3: any two members of one canonical group are equivalent under check_geo,
\* and two geometry nodes of one canonical group have the same vertex count.
C3_GroupMembersEquivalent ==
    \A key \in CanonicalKeys : \A a \in Members(key), b \in Members(key) :
        /\ check_geo(nodes[a], nodes[b])
        /\ (nodes[a].SuperClassID = "GeomObject" /\ nodes[b].SuperClassID = "GeomObject")
              => nodes[a].VertexCount = nodes[b].VertexCount

\* C3 witness: the pass has returned a canonical group although the list
\* holds two nodes of one name and different vertex counts.
C3_Witness ==
    /\ pc = "done"
    /\ CanonicalKeys # {}
    /\ \E a \in 1..Len(nodes), b \in 1..Len(nodes) :
          /\ nodes[a].Name = nodes[b].Name
          /\ nodes[a].VertexCount # nodes[b].VertexCount
          /\ \E key \in CanonicalKeys : a \in Members(key)

\* The later nodes that the anchor nodes[i] would be compared with: equivalent
\* to it and with a mismatch index against it.
Comparable(k) ==
    /\ k > i
    /\ check_geo(nodes[i], nodes[k])
    /\ compare_node_names(nodes[i], nodes[k]) # None

\* C4 as claimed: an anchor that was matched before its outer iteration is
\* still compared against the later nodes, so at the end of its sweep a
\* mismatch index is locked whenever a later node is equivalent to it and
\* has a mismatch index against it.
C4_MatchedAnchorStillCompares ==
    (pc = "inner" /\ j > Len(nodes) /\ skip_match
        /\ \E k \in 1..Len(nodes) : Comparable(k))
    => index_of_mismatch # None

\* C4 as amended: an inner iteration for an anchor that was matched before
\* its outer iteration (it is in matches and no mismatch index is locked)
\* compares nothing: groups, matches and the mismatch index stay as they are,
\* so no group is created and no node is added to the anchor's group.
C4_MatchedAnchorInert ==
    [][(pc = "inner" /\ j <= Len(nodes) /\ in(i, matches) /\ index_of_mismatch = None)
          => (groups' = groups /\ matches' = matches /\ index_of_mismatch' = None)]_vars

\* C4 witness: the sweep of an anchor matched earlier has ended, and a later
\* node was equivalent to it with a mismatch index.
C4_Witness ==
    /\ pc = "inner"
    /\ j > Len(nodes)
    /\ skip_match
    /\ in(i, matches)
    /\ index_of_mismatch = None
    /\ \E k \in 1..Len(nodes) : Comparable(k)

\* The later node at position k passes every test against the anchor nodes[i]
\* when it is taken on its own: it is equivalent to the anchor, has a
\* mismatch index against it, and the two names cleaned at that index agree.
Acceptable(k) ==
    /\ Comparable(k)
    /\ LET index == compare_node_names(nodes[i], nodes[k])
       IN  name_list_clean(split(nodes[i].Name), index)
              = name_list_clean(split(nodes[k].Name), index)

\* C5: a candidate that is rejected at the comparison of the cleaned name
\* lists fixes neither the anchor's mismatch index nor its name list, so a
\* later candidate with another mismatch index can still be accepted: when
\* the sweep of an unmatched anchor ends without an accepted candidate, no
\* later node was acceptable.
C5_RejectedCandidateFixesNothing ==
    (pc = "inner" /\ j > Len(nodes) /\ ~skip_match /\ ~in(i, matches))
    => \A k \in 1..Len(nodes) : ~Acceptable(k)

\* C6: in every canonical group, all members but the first yield one and the
\* same mismatch index, not None, against the first member.
C6_SameMismatchIndex ==
    \A key \in CanonicalKeys :
        LET anchor == nodes[groups[key][1]]
        IN  \A k \in 2..Len(groups[key]), m \in 2..Len(groups[key]) :
                /\ compare_node_names(anchor, nodes[groups[key][k]]) # None
                /\ compare_node_names(anchor, nodes[groups[key][k]])
                      = compare_node_names(anchor, nodes[groups[key][m]])

\* C6 witness: the pass has returned a canonical group of an anchor and at
\* least two other members.
C6_Witness ==
    /\ pc = "done"
    /\ \E key \in CanonicalKeys : Len(groups[key]) >= 3

\* C7: for every canonical group key there is one token index at which the
\* cleaned and rejoined name of every member is the key.
C7_KeyIsCleanedName ==
    \A key \in CanonicalKeys :
        \E index \in 0..(Len(split(nodes[groups[key][1]].Name)) - 1) :
            \A m \in Members(key) :
                /\ index < Len(split(nodes[m].Name))
                /\ join(name_list_clean(split(nodes[m].Name), index)) = key

\* C7 witness: the pass has returned a canonical group whose key differs
\* from the name of each of its members.
C7_Witness ==
    /\ pc = "done"
    /\ \E key \in CanonicalKeys :
          /\ Len(groups[key]) >= 2
          /\ \A m \in Members(key) : nodes[m].Name # key

\* C8: no canonical group key written by the sweep is the key of the leftover
\* bucket.
C8_SentinelNeverCanonical ==
    pc # "done" => UNIQUE_NODES \notin DOMAIN groups

\* Two names of the same number of tokens, at least two, that differ in
\* exactly one token, purely numeric in both.
NumericVariants(name1, name2) ==
    LET l1 == split(name1)
        l2 == split(name2)
    IN  /\ Len(l1) = Len(l2)
        /\ Len(l1) >= 2
        /\ Cardinality(Mismatches(l1, l2)) = 1
        /\ \A s \in Mismatches(l1, l2) : isdigit(l1[s + 1]) /\ isdigit(l2[s + 1])

\* The tokens of name1 without the one in which name2 differs, joined.
RemainingTokens(name1, name2) ==
    LET l1 == split(name1)
    IN  join(pop(l1, CHOOSE s \in Mismatches(l1, split(name2)) : TRUE))

\* The node at position k is equivalent to no other node of the list.
Lonely(k) == \A d \in 1..Len(nodes) : d # k => ~check_geo(nodes[k], nodes[d])

\* C9: when match_names returns, two equivalent nodes whose names differ in
\* one purely numeric token, with no other node equivalent to either, are
\* exactly the members of the canonical group keyed by the remaining tokens,
\* and every node equivalent to no other node is in the leftover bucket.
\* (Stated for names of two tokens or more: a name of one token has no
\* remaining tokens.)
C9_NumericPairGrouped ==
    pc = "done" =>
        /\ \A a \in 1..Len(nodes), b \in 1..Len(nodes) :
              ( /\ a < b
                /\ check_geo(nodes[a], nodes[b])
                /\ NumericVariants(nodes[a].Name, nodes[b].Name)
                /\ \A c \in 1..Len(nodes) \ { a, b } :
                      ~check_geo(nodes[c], nodes[a]) /\ ~check_geo(nodes[c], nodes[b]) )
              => LET key == RemainingTokens(nodes[a].Name, nodes[b].Name)
                 IN  key \in DOMAIN groups /\ groups[key] = << a, b >>
        /\ \A c \in 1..Len(nodes) :
              Lonely(c) => (UNIQUE_NODES \in DOMAIN groups /\ c \in Members(UNIQUE_NODES))

\* C10: compare_node_names returns index exactly when the two names differ,
\* have the same number of tokens, differ at that position and at no other,
\* and the token of the second name there is not purely alphabetic; it
\* returns None exactly when no position is such.
C10_MismatchIndexIff ==
    pc = "compared" =>
        LET l1 == split(nodes[1].Name)
            l2 == split(nodes[2].Name)
            SingleMismatch(index) ==
                /\ nodes[1].Name # nodes[2].Name
                /\ Len(l1) = Len(l2)
                /\ index < Len(l1)
                /\ l1[index + 1] # l2[index + 1]
                /\ \A s \in 0..(Len(l1) - 1) : s # index => l1[s + 1] = l2[s + 1]
                /\ \/ Len(l2[index + 1]) = 0
                   \/ \E c \in 1..Len(l2[index + 1]) : l2[index + 1][c] \notin AlphaChars
        IN  /\ \A index \in 0..(Len(l1) + Len(l2)) :
                  (index_of_mismatch_compare = index) <=> SingleMismatch(index)
            /\ (index_of_mismatch_compare = None)
                  <=> ~ \E index \in 0..(Len(l1) + Len(l2)) : SingleMismatch(index)

\* C10 witness: an index was returned although the token of the first name at
\* that index is purely alphabetic.
C10_Witness ==
    /\ pc = "compared"
    /\ index_of_mismatch_compare # None
    /\ isalpha(split(nodes[1].Name)[index_of_mismatch_compare + 1])

\* The two names have the same number of tokens and differ at the 0-based
\* position index and nowhere else, in a token purely alphabetic in both.
AlphaMismatchAt(name1, name2, index) ==
    LET l1 == split(name1)
        l2 == split(name2)
    IN  /\ Len(l1) = Len(l2)
        /\ index < Len(l1)
        /\ Mismatches(l1, l2) = { index }
        /\ isalpha(l1[index + 1])
        /\ isalpha(l2[index + 1])

NonNumericSegments(token) == SelectSeq(token, LAMBDA c : c \notin DigitChars)

\* C12: name_list_clean returns the token list unchanged when the token at the
\* index is purely alphabetic; without that token when it is purely numeric
\* and the list has more than one token (a list of one token is returned
\* unchanged, and the result is never empty); otherwise with that token
\* replaced in place by the concatenation of its non-numeric segments.
C12_CleanTokenAt ==
    pc = "cleaned" =>
        LET name_list == split(nodes[1].Name)
            token == name_list[index_of_mismatch + 1]
        IN  /\ Len(node1_name_list) > 0
            /\ node1_name_list =
                  IF isalpha(token) THEN name_list
                  ELSE IF isdigit(token)
                       THEN IF Len(name_list) > 1
                            THEN pop(name_list, index_of_mismatch)
                            ELSE name_list
                       ELSE [name_list EXCEPT ![index_of_mismatch + 1] =
                                NonNumericSegments(token)]

\* C13: the second of two calls of match_names on one list returns the
\* mapping the first call returned, with the same keys and the same members
\* in the same order under every key, the leftover bucket included; and no
\* step of a call changes the list, the name or an attribute of a node.
C13_SecondRunIdentical ==
    /\ [](pc = "done" /\ Len(returned) = 1 => groups = returned[1])
    /\ [][nodes' = nodes]_vars

\* C13 witness: the second call has returned, and the mapping holds a
\* canonical group of two members or more besides the leftover bucket.
C13_Witness ==
    /\ pc = "done"
    /\ Len(returned) = 1
    /\ \E key \in CanonicalKeys : Len(groups[key]) >= 2

MaterialNameSet(ns) ==
    { ns[k].MaterialName : k \in { m \in 1..Len(ns) : ns[m].HasMaterial } }

\* The number of nodes of a list that use the material name.
MaterialCount(ns, name) ==
    Cardinality({ k \in 1..Len(ns) : ns[k].HasMaterial /\ ns[k].MaterialName = name })

BothGroups == nodes[1].SuperClassID = "Helper" /\ nodes[2].SuperClassID = "Helper"

BothGeometry ==
    nodes[1].SuperClassID = "GeomObject" /\ nodes[2].SuperClassID = "GeomObject"

\* The two flattened lists have one length and one sum of vertex counts.
SameLengthAndVertexSum(list1, list2) ==
    /\ Len(list1) = Len(list2)
    /\ sum(VertexCounts(list1)) = sum(VertexCounts(list2))

\* C15 as claimed: two group nodes are equivalent exactly when their
\* flattened lists have equal length, equal sums of vertex counts and equal
\* sets of distinct material names.
C15_GroupsEquivalentIffSameMaterialSet ==
    (pc = "checked" /\ BothGroups) =>
        LET list1 == get_all_nodes(<< nodes[1] >>)
            list2 == get_all_nodes(<< nodes[2] >>)
        IN  returned[1] <=> /\ SameLengthAndVertexSum(list1, list2)
                            /\ MaterialNameSet(list1) = MaterialNameSet(list2)

\* C15 as amended: two group nodes are equivalent exactly when their
\* flattened lists (each group node with all its descendants) have equal
\* length, equal sums of vertex counts, and use every material name the same
\* number of times.
C15_GroupsEquivalentIffSameMaterialCounts ==
    (pc = "checked" /\ BothGroups) =>
        LET list1 == get_all_nodes(<< nodes[1] >>)
            list2 == get_all_nodes(<< nodes[2] >>)
        IN  returned[1] <=>
               /\ SameLengthAndVertexSum(list1, list2)
               /\ \A name \in MaterialNameSet(list1) \cup MaterialNameSet(list2) :
                     MaterialCount(list1, name) = MaterialCount(list2, name)

\* C15 witness: check_geo was applied to two groups with lists of equal
\* length and vertex sum that use the same material names, one of them a
\* different number of times.
C15_Witness ==
    /\ pc = "checked"
    /\ BothGroups
    /\ LET list1 == get_all_nodes(<< nodes[1] >>)
           list2 == get_all_nodes(<< nodes[2] >>)
       IN  /\ SameLengthAndVertexSum(list1, list2)
           /\ MaterialNameSet(list1) = MaterialNameSet(list2)
           /\ \E name \in MaterialNameSet(list1) :
                 MaterialCount(list1, name) # MaterialCount(list2, name)

\* C16: two geometry nodes are equivalent exactly when their vertex counts
\* are equal, both have a material, and the two material names are equal.
C16_GeometryEquivalentIff ==
    (pc = "checked" /\ BothGeometry) =>
        (returned[1] <=> /\ nodes[1].VertexCount = nodes[2].VertexCount
                         /\ nodes[1].HasMaterial
                         /\ nodes[2].HasMaterial
                         /\ nodes[1].MaterialName = nodes[2].MaterialName)

\* C16 witness: check_geo was applied to two geometry nodes of one material
\* name and different vertex counts.
C16_Witness ==
    /\ pc = "checked"
    /\ BothGeometry
    /\ nodes[1].HasMaterial
    /\ nodes[2].HasMaterial
    /\ nodes[1].MaterialName = nodes[2].MaterialName
    /\ nodes[1].VertexCount # nodes[2].VertexCount

\* C17: check_geo(a, b) equals check_geo(b, a) for all nodes a and b, group
\* or geometry, with or without a material.
C17_Symmetric ==
    pc = "checked" => returned[1] = returned[2]

\* C17 witness: check_geo was applied both ways round to two geometry nodes
\* of one vertex count, the first with a material and the second without.
C17_Witness ==
    /\ pc = "checked"
    /\ BothGeometry
    /\ nodes[1].VertexCount = nodes[2].VertexCount
    /\ nodes[1].HasMaterial
    /\ ~nodes[2].HasMaterial

\* C18: check_geo(a, a) is true for every geometry node with a material and
\* for every group node.
C18_Reflexive ==
    (pc = "checked" /\ nodes[1] = nodes[2]
        /\ (nodes[1].SuperClassID = "Helper" \/ nodes[1].HasMaterial))
    => returned[1] = TRUE

\* C18 witness: check_geo was applied to a group node and itself, the group
\* having no material of its own and a child without a material.
C18_Witness ==
    /\ pc = "checked"
    /\ nodes[1] = nodes[2]
    /\ nodes[1].SuperClassID = "Helper"
    /\ ~nodes[1].HasMaterial
    /\ \E k \in 1..Len(nodes[1].Children) : ~nodes[1].Children[k].HasMaterial

\* The digit run of s that starts right after its first p characters: the
\* longest one.
DigitRunAt(s, p) ==
    LET end == CHOOSE e \in p..Len(s) :
                   /\ \A k \in (p + 1)..e : s[k] \in DigitChars
                   /\ (e < Len(s) => s[e + 1] \notin DigitChars)
    IN  SubSeq(s, p + 1, end)

\* a and b are equal up to a digit run that starts after p characters, and
\* the run of a has the smaller integer value.
SmallerRunAt(a, b, p) ==
    /\ p <= Len(a)
    /\ p <= Len(b)
    /\ SubSeq(a, 1, p) = SubSeq(b, 1, p)
    /\ (p > 0 => a[p] \notin DigitChars)
    /\ Len(DigitRunAt(a, p)) > 0
    /\ Len(DigitRunAt(b, p)) > 0
    /\ int(DigitRunAt(a, p)) < int(DigitRunAt(b, p))

\* C19: when two strings are equal up to a digit run and the run of the first
\* has the smaller integer value, the key of the first is smaller than the
\* key of the second; so the key of item2 is smaller than the key of item10.
C19_DigitRunsByValue ==
    pc = "keyed" =>
        /\ (nodes[1].Name = Name_item2 /\ nodes[2].Name = Name_item10)
              => KeyLess(returned[1], returned[2])
        /\ \A p \in 0..Len(nodes[1].Name) :
              SmallerRunAt(nodes[1].Name, nodes[2].Name, p)
                  => KeyLess(returned[1], returned[2])

\* C19 witness: the keys of item2 and item10 were made, two strings equal up
\* to a digit run, and as strs item10 comes before item2.
C19_Witness ==
    /\ pc = "keyed"
    /\ nodes[1].Name = Name_item2
    /\ nodes[2].Name = Name_item10
    /\ SmallerRunAt(nodes[1].Name, nodes[2].Name, 4)
    /\ StrLess(nodes[2].Name, nodes[1].Name)

\* key1[k] <= key2[k] of two key elements: equal, or in the order of ChunkLess.
ChunkLessEq(x, y) == x = y \/ ChunkLess(x, y)

\* key1 <= key2 of two keys: the first differing element decides, else the
\* lengths.
RECURSIVE KeyLessEq(_, _)
KeyLessEq(a, b) ==
    IF Len(a) = 0 THEN TRUE
    ELSE IF Len(b) = 0 THEN FALSE
    ELSE IF a[1] # b[1] THEN ChunkLessEq(a[1], b[1])
    ELSE KeyLessEq(Tail(a), Tail(b))

\* The two keys have elements of one kind, int or str, at every position
\* they share, so comparing them never compares an int with a str.
SameKinds(key1, key2) ==
    \A k \in 1..Len(key1) : k <= Len(key2) => key1[k].kind = key2[k].kind

\* C20: the keys of any three strings, the empty string, strings without
\* digits and strings of digits alone included, are comparable element by
\* element, any two of them are ordered one way or the other by <=, and <=
\* is transitive on them.
C20_TotalTransitive ==
    pc = "keyed" =>
        /\ SameKinds(returned[1], returned[2])
        /\ KeyLessEq(returned[1], returned[2]) \/ KeyLessEq(returned[2], returned[1])
        /\ (KeyLessEq(returned[1], returned[2]) /\ KeyLessEq(returned[2], returned[3]))
              => KeyLessEq(returned[1], returned[3])

\* C20 witness: the keys of the empty string, of a string of digits alone
\* and of a string without digits were made.
C20_Witness ==
    /\ pc = "keyed"
    /\ nodes[1].Name = << >>
    /\ isdigit(nodes[2].Name)
    /\ isalpha(nodes[3].Name)

\* C21: every key that alphanum_key makes has a str at its first, third, ...
\* element and an int at its second, fourth, ... element, and begins and ends
\* with a str (possibly empty); so the elements at one position of two keys
\* have one kind, and comparing two keys never compares an int with a str.
C21_KindsAlternate ==
    pc = "keyed" =>
        /\ \A n \in 1..Len(returned) :
              /\ Len(returned[n]) % 2 = 1
              /\ \A k \in 1..Len(returned[n]) :
                    returned[n][k].kind = (IF k % 2 = 1 THEN "str" ELSE "int")
        /\ \A n \in 1..Len(returned), m \in 1..Len(returned) :
              SameKinds(returned[n], returned[m])

\* C21 witness: the keys of a string that begins with a digit and of a string
\* that begins with a letter and holds a digit were made.
C21_Witness ==
    /\ pc = "keyed"
    /\ Len(nodes[1].Name) > 0
    /\ nodes[1].Name[1] \in DigitChars
    /\ Len(nodes[2].Name) > 1
    /\ nodes[2].Name[1] \in AlphaChars
    /\ \E k \in 2..Len(nodes[2].Name) : nodes[2].Name[k] \in DigitChars

\* The first position at which two keys differ, 0 when one is a prefix of the
\* other or they are equal.
FirstDifference(key1, key2) ==
    LET differing == { k \in 1..Len(key1) : k <= Len(key2) /\ key1[k] # key2[k] }
    IN  IF differing = {} THEN 0
        ELSE CHOOSE k \in differing : \A m \in differing : k <= m

\* The letters of a and b are the same up to their case, and the other
\* characters are the same.
DifferOnlyInCase(a, b) ==
    /\ Len(a) = Len(b)
    /\ \A k \in 1..Len(a) :
          \/ a[k] = b[k]
          \/ a[k] \in UpperChars /\ b[k] = Chars[Ord(a[k]) + 27]
          \/ b[k] \in UpperChars /\ a[k] = Chars[Ord(b[k]) + 27]

\* C22: with case_sensitive false two strings that differ only in the case of
\* letters have equal keys, as ABC2 and abc2 have; with case_sensitive true
\* the text segments keep their case, and when the first element in which two
\* keys differ is a text segment that starts with an uppercase letter in the
\* first key and with the same letter in lowercase in the second, the first
\* key is smaller.
C22_CaseHandling ==
    /\ pc = "keyed_case_insensitive" =>
          /\ (nodes[1].Name = Name_ABC2 /\ nodes[2].Name = Name_abc2)
                => returned[1] = returned[2]
          /\ DifferOnlyInCase(nodes[1].Name, nodes[2].Name)
                => returned[1] = returned[2]
    /\ pc = "keyed_case_sensitive" =>
          /\ \A n \in 1..Len(returned) :
                concat(StrChunks(returned[n])) = NonNumericSegments(nodes[n].Name)
          /\ LET p == FirstDifference(returned[1], returned[2])
             IN  ( /\ p > 0
                   /\ returned[1][p].kind = "str"
                   /\ returned[2][p].kind = "str"
                   /\ Len(returned[1][p].str) > 0
                   /\ Len(returned[2][p].str) > 0
                   /\ returned[1][p].str[1] \in UpperChars
                   /\ returned[2][p].str[1] = Chars[Ord(returned[1][p].str[1]) + 27] )
                 => KeyLess(returned[1], returned[2])

\* C22 witness: the keys of ABC2 and abc2 were made with case_sensitive false.
C22_Witness ==
    /\ pc = "keyed_case_insensitive"
    /\ nodes[1].Name = Name_ABC2
    /\ nodes[2].Name = Name_abc2

\* The number of times the node at a position of top_level_nodes was given
\* to export_node.
TimesExported(position) ==
    Cardinality({ k \in 1..Len(returned[4]) : returned[4][k] = position })

C28_MergedMembersEquivalentToFirst ==
    pc = "merged" =>
        \A group_name \in DOMAIN returned[3] \ { UNIQUE_NODES } :
            \A k \in 1..Len(returned[3][group_name]) :
                check_geo(returned[1][returned[3][group_name][1]],
                          returned[1][returned[3][group_name][k]])

\* The variant of match_names that leaves the outer iteration of a matched
\* anchor with `continue`, seen through the state of the code: while the code
\* runs the disabled iteration of a matched anchor, the variant is already at
\* the head of the next outer iteration.
i_of_variant == IF pc = "inner" /\ skip_match THEN i + 1 ELSE i

pc_of_variant == IF pc = "inner" /\ skip_match THEN "outer" ELSE pc

vars_of_variant == << i_of_variant, pc_of_variant, groups, matches >>

\* One step of the variant.  It has no skip_match; the body of its inner loop
\* is the body of lines 1346-1431.
VariantStep ==
    \/ /\ pc_of_variant = "outer"
       /\ i_of_variant <= Len(nodes) - 1
       /\ in(i_of_variant, matches)
       /\ i_of_variant' = i_of_variant + 1
       /\ pc_of_variant' = "outer"
       /\ UNCHANGED << groups, matches >>
    \/ /\ pc_of_variant = "outer"
       /\ i_of_variant <= Len(nodes) - 1
       /\ ~in(i_of_variant, matches)
       /\ node1_name_list' = split(nodes[i_of_variant].Name)
       /\ index_of_mismatch' = None
       /\ j' = i_of_variant + 1
       /\ i_of_variant' = i_of_variant
       /\ pc_of_variant' = "inner"
       /\ UNCHANGED << groups, matches >>
    \/ /\ pc_of_variant = "inner"
       /\ ~skip_match
       /\ InnerIteration
    \/ /\ pc_of_variant = "inner"
       /\ j > Len(nodes)
       /\ i_of_variant' = i_of_variant + 1
       /\ pc_of_variant' = "outer"
       /\ UNCHANGED << groups, matches >>
    \/ /\ pc_of_variant = "outer"
       /\ i_of_variant > Len(nodes) - 1
       /\ groups' = (UNIQUE_NODES :> unique_nodes(nodes, matches)) @@ groups
       /\ pc_of_variant' = "done"
       /\ UNCHANGED << i_of_variant, matches >>

\* C24: an outer iteration whose anchor is already in matches leaves groups
\* and matches as they are, skip_match is false whenever an anchor starts,
\* and every step of the sweep is a step of the variant that skips a matched
\* anchor with `continue` or leaves the variant where it is, so both return
\* the same mapping.
C24_SameAsContinueVariant ==
    /\ [](pc = "outer" => ~skip_match)
    /\ [][(pc = "inner" /\ skip_match) =>
              (groups' = groups /\ matches' = matches)]_vars
    /\ [][(pc = "outer" \/ pc = "inner") => VariantStep]_vars_of_variant

\* C24 witness: the outer iteration of an anchor that was matched as a later
\* node of some group is over, and a later node is equivalent to that anchor.
C24_Witness ==
    /\ pc = "outer"
    /\ i > 1
    /\ \E key \in DOMAIN groups :
          \E k \in 2..Len(groups[key]) : groups[key][k] = i - 1
    /\ \E k \in i..Len(nodes) : check_geo(nodes[i - 1], nodes[k])

\* C30: after every outer iteration of the sweep every canonical group has at
\* least two members, in strictly increasing input order.
C30_GroupsOrdered ==
    pc = "outer" =>
        \A key \in DOMAIN groups :
            /\ Len(groups[key]) >= 2
            /\ \A k \in 1..(Len(groups[key]) - 1) :
                  groups[key][k] < groups[key][k + 1]

\* C30 witness: an outer iteration is over that replaced the group of an
\* earlier anchor by a group of the same key.
C30_Witness ==
    /\ pc = "outer"
    /\ \E key \in DOMAIN groups :
          \E k \in 1..(groups[key][1] - 1) :
              /\ in(k, matches)
              /\ Locations(k) = {}

\* The calls of process_scene of the run that is going on.
CallsOfRun == SelectSeq(returned, LAMBDA call : call.run = frame.run)

\* The run that is going on found the cursor file when it started.
StartedWithCursor ==
    /\ pc \in { "walk", "processed", "manifest_written", "searched" }
    /\ Len(frame.most_recent_processed_file_path) > 0

\* The place in the walk of the list that holds the cursor path, 0 in a run
\* without cursor.
CursorBatch ==
    IF StartedWithCursor
    THEN CHOOSE b \in 1..Len(disk.max_walk) :
             in(frame.most_recent_processed_file_path[1], disk.max_walk[b])
    ELSE 0

\* No list up to the one of the cursor path was processed in this run, and
\* the lists that were are processed in the order of the walk.
OnlyLaterBatchesInOrder ==
    /\ \A k \in 1..Len(CallsOfRun) : CallsOfRun[k].batch > CursorBatch
    /\ \A k \in 1..(Len(CallsOfRun) - 1) :
          CallsOfRun[k].batch < CallsOfRun[k + 1].batch

Attempted(b) == \E k \in 1..Len(CallsOfRun) : CallsOfRun[k].batch = b

\* C25 as claimed: a run that finds the cursor file processes no list up to
\* and including the one that holds the cursor path, and it attempts every
\* list yielded after that one, in the order of the walk.
C25_AttemptsEveryLaterBatch ==
    /\ [](StartedWithCursor => OnlyLaterBatchesInOrder)
    /\ (StartedWithCursor /\ frame.run = MaxRuns)
           ~> (pc = "searched" /\ StartedWithCursor
                 /\ \A b \in (CursorBatch + 1)..Len(disk.max_walk) : Attempted(b))

\* C25 as amended: a run that finds the cursor file processes no list up to
\* and including the one that holds the cursor path, and of every list
\* yielded after that one of which a file is left by lines 2019-2024 it
\* gives one file to process_scene, in the order of the walk.
C25_AttemptsEveryLaterBatchWithFile ==
    /\ [](StartedWithCursor => OnlyLaterBatchesInOrder)
    /\ (StartedWithCursor /\ frame.run = MaxRuns)
           ~> (pc = "searched" /\ StartedWithCursor
                 /\ \A b \in (CursorBatch + 1)..Len(disk.max_walk) :
                       Len(files_to_choose(disk.max_walk[b])) > 0 => Attempted(b))

\* C25 witness: a run that found the cursor file is over, and it processed a
\* list yielded after the one of the cursor path.
C25_Witness ==
    /\ StartedWithCursor
    /\ pc = "searched"
    /\ CursorBatch < Len(disk.max_walk)
    /\ Len(CallsOfRun) > 0

\* C26: no path given to process_scene holds, in any case of the letters, a
\* word of IGNORE_IN_MAX_FILE_NAMES.
C26_NoIgnoredWordProcessed ==
    \A k \in 1..Len(returned) :
        \A e \in 1..Len(IGNORE_IN_MAX_FILE_NAMES) :
            ~contains(lower(IGNORE_IN_MAX_FILE_NAMES[e]),
                      lower(returned[k].scn_file_path))

\* C29: over the runs on one tree, each resumed after the one before it was
\* interrupted between two writes, no path is in the manifest file twice.
C29_ManifestedOnce ==
    \A a \in 1..Len(disk.manifest), b \in 1..Len(disk.manifest) :
        a # b => disk.manifest[a] # disk.manifest[b]

\* C27: when a file the scene refers to is still missing once
\* add_session_paths is over, process_scene returns False and neither checks
\* the scene in nor exports a node, also when session paths were added.
C27_MissingFileSkipsScene ==
    (pc \in { "missing_files", "get_asset_nodes", "returned" }
        /\ Len(frame.scene) > 0)
    => /\ ~frame.check_in_scene
       /\ ~frame.export_nodes
       /\ pc = "returned" => returned = << FALSE >>

====
